---- MODULE Spec2Model ----
(***************************************************************************)
(* fmriprep field-map entry point (fmriprep/main/fmaps.py) and the EPI     *)
(* enhance-and-skullstrip workflow builder (fmriprep/workflows/util.py).   *)
(*                                                                         *)
(* Strings that the code slices or pattern-matches (directory entry names, *)
(* subject identifiers, glob patterns) are sequences of one-character      *)
(* strings.  Filesystem paths are sequences of path components.            *)
(***************************************************************************)
EXTENDS Integers, Sequences, FiniteSets, TLC

VARIABLES
    pc,              \* position inside create_workflow / fmap_enumerator
    opts,            \* the parsed command line (argparse namespace)
    cpu,             \* what multiprocessing.cpu_count() returns on this host
    listing,         \* names of the entries of bids_root
    fs,              \* directories that exist
    settings,        \* the settings dict
    ncfg,            \* nipype config: log_directory and crashdump_dir
    plugin_settings, \* the plugin configuration dict
    subject_list,    \* subject identifiers to process
    idx,             \* loop position of fmap_enumerator in subject_list
    workflow,        \* nodes of the 'workflow_enumerator' graph, in insertion order
    run_call,        \* the call preproc_wf.run(**plugin_settings), once made
    errno,           \* the local errno of create_workflow
    exit_status,     \* status handed to sys.exit, -1 while the process is alive
    events,          \* calls made to the engine and to sys, in order
    runs,            \* how many times the program has been invoked
    fs_prev,         \* directories that existed when this invocation started
    g_pc,            \* position inside init_enhance_and_skullstrip_epi_wf
    g_i,             \* next node declaration or connect tuple to process
    g_name,          \* its name argument
    g_declared,      \* names of the Node objects created so far
    g_nodes,         \* nodes of the graph it builds
    g_edges,         \* edges of the graph it builds
    g_status         \* execution status of each node once the graph is run

cw_vars == <<pc, opts, cpu, listing, fs, settings, ncfg, plugin_settings,
             subject_list, idx, workflow, run_call, errno, exit_status,
             events, runs, fs_prev>>
g_vars == <<g_pc, g_i, g_name, g_declared, g_nodes, g_edges, g_status>>
vars == <<pc, opts, cpu, listing, fs, settings, ncfg, plugin_settings,
          subject_list, idx, workflow, run_call, errno, exit_status,
          events, runs, fs_prev, g_pc, g_i, g_name, g_declared, g_nodes, g_edges,
          g_status>>

----------------------------------------------------------------------------
(* Bounds of the model *)

MaxThreads == 2
MaxCpu == 2
MaxMemSteps == 2
MaxEntries == 3
MaxRuns == 2

----------------------------------------------------------------------------
(* Strings as character sequences *)

Str_sub01 == <<"s", "u", "b", "-", "0", "1">>
Str_sub02 == <<"s", "u", "b", "-", "0", "2">>
Str_sub == <<"s", "u", "b", "-">>
Str_sub03nodash == <<"s", "u", "b", "0", "3">>
Str_xsub04 == <<"x", "s", "u", "b", "-", "0", "4">>
Str_code == <<"c", "o", "d", "e">>
Str_01 == <<"0", "1">>
Str_02 == <<"0", "2">>

\* Names a BIDS root may hold: subject folders, and entries that are not.
EntryNames ==
    {Str_sub01, Str_sub02, Str_sub, Str_sub03nodash, Str_xsub04, Str_code}

SubPattern == <<"s", "u", "b", "-", "*">>

\* fnmatch for patterns made of literal characters and '*'
RECURSIVE fnmatch(_, _)
fnmatch(name, pat) ==
    IF pat = <<>> THEN name = <<>>
    ELSE IF Head(pat) = "*"
         THEN \/ fnmatch(name, Tail(pat))
              \/ name # <<>> /\ fnmatch(Tail(name), pat)
         ELSE /\ name # <<>>
              /\ Head(name) = Head(pat)
              /\ fnmatch(Tail(name), Tail(pat))

\* s[n:] of Python
SliceFrom(s, n) == SubSeq(s, n + 1, Len(s))

\* every arrangement of a finite set as a sequence (os.listdir has no order)
Orderings(S) ==
    {q \in [1..Cardinality(S) -> S] : \A i, j \in 1..Cardinality(S) :
                                          i # j => q[i] # q[j]}

Range(q) == {q[i] : i \in 1..Len(q)}

----------------------------------------------------------------------------
(* Paths *)

Cwd == <<"home">>

Rel(parts) == [abs |-> FALSE, parts |-> parts]
Abs(parts) == [abs |-> TRUE, parts |-> parts]

op_abspath(p) == IF p.abs THEN p.parts ELSE Cwd \o p.parts

op_join(p, c) == Append(p, c)

\* a path inside bids_root, and its last component
op_join_entry(root, name) == [dir |-> root, base |-> name]
op_basename(p) == p.base

Prefixes(p) == {SubSeq(p, 1, k) : k \in 1..Len(p)}

AncestorClosed(S) == \A p \in S : Prefixes(p) \subseteq S

\* fmriprep.utils.make_folder: create the folder and its missing parents,
\* accept a folder that is already there
make_folder(folder, fsys) ==
    [raised |-> FALSE, fs |-> fsys \cup Prefixes(folder)]

\* os.mkdir: fails when the folder exists or its parent does not
os_mkdir(folder, fsys) ==
    IF folder \in fsys \/ ~(Prefixes(folder) \ {folder} \subseteq fsys)
    THEN [raised |-> TRUE, fs |-> fsys]
    ELSE [raised |-> FALSE, fs |-> fsys \cup {folder}]

\* glob.glob(op.join(root, pattern)): the matching entries, in some order
glob(root, pattern, entries) ==
    LET hit == {n \in entries : fnmatch(n, pattern)}
    IN  {[i \in 1..Cardinality(hit) |-> op_join_entry(root, q[i])] :
            q \in Orderings(hit)}

----------------------------------------------------------------------------
(* Command line and environment *)

None == [given |-> FALSE]
Some(v) == [given |-> TRUE, val |-> v]

MemValues == {512 * k : k \in 0..MaxMemSteps}

\* what yaml.load may return for a --use-plugin file
PluginFiles ==
    {[plugin |-> "SGE"],
     [plugin |-> "MultiProc", plugin_args |-> [n_procs |-> 8]]}

BidsRoot == <<"data", "bids">>

log_dir == op_join(settings.output_dir, "log")
derivatives == op_join(settings.output_dir, "derivatives")

TargetDirs(o) ==
    LET out == op_abspath(o.output_dir)
    IN  {out, op_abspath(o.work_dir), op_join(out, "derivatives"),
         op_join(out, "log")}

DirUniverse(o) == UNION {Prefixes(d) : d \in TargetDirs(o)}

NoSettings == [bids_root |-> <<>>, write_graph |-> FALSE, nthreads |-> 0,
               mem_mb |-> 0, ants_nthreads |-> 0, output_dir |-> <<>>,
               work_dir |-> <<>>]

NoRunCall == [called |-> FALSE]

\* the local state of a process that has just parsed its command line
ProcessStart ==
    /\ pc = "start"
    /\ settings = NoSettings
    /\ ncfg = None
    /\ plugin_settings = [plugin |-> "Linear"]
    /\ subject_list = <<>>
    /\ idx = 1
    /\ workflow = <<>>
    /\ run_call = NoRunCall
    /\ errno = 0
    /\ exit_status = -1
    /\ events = <<>>

GraphIdle ==
    /\ g_pc = "idle"
    /\ g_i = 1
    /\ g_name = ""
    /\ g_declared = {}
    /\ g_nodes = {}
    /\ g_edges = {}
    /\ g_status = <<>>

CwInit(OptSet, CpuSet, ListingSet, dirsVary) ==
    /\ opts \in OptSet
    /\ cpu \in CpuSet
    /\ listing \in ListingSet
    /\ fs \in {S \in SUBSET DirUniverse(opts) :
                 /\ Prefixes(Cwd) \subseteq S
                 /\ AncestorClosed(S)
                 /\ dirsVary \/ S = Prefixes(Cwd)}
    /\ runs = 1
    /\ fs_prev = fs
    /\ ProcessStart
    /\ GraphIdle

----------------------------------------------------------------------------
(* create_workflow *)

\* lines 72-85: errno = 0 and the settings dict
Setup ==
    /\ pc = "start"
    /\ errno' = 0
    /\ settings' = [bids_root |-> op_abspath(opts.bids_dir),
                    write_graph |-> opts.write_graph,
                    nthreads |-> opts.nthreads,
                    mem_mb |-> opts.mem_mb,
                    ants_nthreads |-> opts.ants_nthreads,
                    output_dir |-> op_abspath(opts.output_dir),
                    work_dir |-> op_abspath(opts.work_dir)]
    /\ pc' = "mk_out"
    /\ UNCHANGED <<opts, cpu, listing, fs, ncfg, plugin_settings, subject_list,
                   idx, workflow, run_call, exit_status, events, runs, fs_prev>>
    /\ UNCHANGED g_vars

\* one make_folder statement: an OSError escapes create_workflow
MakeFolderStep(here, folder, next) ==
    /\ pc = here
    /\ LET r == make_folder(folder, fs)
       IN  /\ fs' = r.fs
           /\ pc' = IF r.raised THEN "crashed" ELSE next
    /\ UNCHANGED <<opts, cpu, listing, settings, ncfg, plugin_settings,
                   subject_list, idx, workflow, run_call, errno, exit_status,
                   events, runs, fs_prev>>
    /\ UNCHANGED g_vars

\* the same statement written with os.mkdir
MkdirStep(here, folder, next) ==
    /\ pc = here
    /\ LET r == os_mkdir(folder, fs)
       IN  /\ fs' = r.fs
           /\ pc' = IF r.raised THEN "crashed" ELSE next
    /\ UNCHANGED <<opts, cpu, listing, settings, ncfg, plugin_settings,
                   subject_list, idx, workflow, run_call, errno, exit_status,
                   events, runs, fs_prev>>
    /\ UNCHANGED g_vars

\* the statement left out
SkipFolderStep(here, next) ==
    /\ pc = here
    /\ pc' = next
    /\ UNCHANGED <<opts, cpu, listing, fs, settings, ncfg, plugin_settings,
                   subject_list, idx, workflow, run_call, errno, exit_status,
                   events, runs, fs_prev>>
    /\ UNCHANGED g_vars

MakeOutputDir_mkdir == MkdirStep("mk_out", settings.output_dir, "mk_work")

MakeOutputDir == MakeFolderStep("mk_out", settings.output_dir, "mk_work")

MakeWorkDir == MakeFolderStep("mk_work", settings.work_dir, "mk_deriv")

MakeDerivatives == MakeFolderStep("mk_deriv", derivatives, "mk_log")

MakeLogDir_skipped == SkipFolderStep("mk_log", "config")

MakeLogDir == MakeFolderStep("mk_log", log_dir, "config")

\* lines 95-98
UpdateConfig ==
    /\ pc = "config"
    /\ ncfg' = Some([log_directory |-> log_dir, log_to_file |-> TRUE,
                     crashdump_dir |-> log_dir])
    /\ events' = Append(events, "update_config")
    /\ pc' = "plugin"
    /\ UNCHANGED <<opts, cpu, listing, fs, settings, plugin_settings,
                   subject_list, idx, workflow, run_call, errno, exit_status,
                   runs, fs_prev>>
    /\ UNCHANGED g_vars

cpu_count == cpu

\* yaml.load of the --use-plugin file
loadyml(f) == f

\* a // b
FloorDiv(a, b) == [num |-> a \div b, den |-> 1]

\* a / b under "from __future__ import division": the exact quotient
TrueDiv(a, b) == [num |-> a, den |-> b]

\* lines 111-115, with nthreads as it stands after line 109
MultiProcSettings(nthreads, mem_mb) ==
    IF nthreads > 1
    THEN [plugin |-> "MultiProc",
          plugin_args |->
              IF mem_mb # 0
              THEN [n_procs |-> nthreads, memory_gb |-> TrueDiv(mem_mb, 1024)]
              ELSE [n_procs |-> nthreads]]
    ELSE [plugin |-> "Linear"]

\* lines 101-115
PluginSetup ==
    /\ pc = "plugin"
    /\ IF opts.use_plugin.given
       THEN /\ plugin_settings' = loadyml(opts.use_plugin.val)
            /\ UNCHANGED settings
       ELSE LET n == IF settings.nthreads = 0 THEN cpu_count
                     ELSE settings.nthreads
            IN  /\ settings' = [settings EXCEPT !.nthreads = n]
                /\ plugin_settings' = MultiProcSettings(n, settings.mem_mb)
    /\ pc' = "ants"
    /\ UNCHANGED <<opts, cpu, listing, fs, ncfg, subject_list, idx, workflow,
                   run_call, errno, exit_status, events, runs, fs_prev>>
    /\ UNCHANGED g_vars

AntsThreads_nodefault ==
    /\ pc = "ants"
    /\ pc' = "subjects"
    /\ UNCHANGED <<opts, cpu, listing, fs, settings, ncfg, plugin_settings,
                   subject_list, idx, workflow, run_call, errno, exit_status,
                   events, runs, fs_prev>>
    /\ UNCHANGED g_vars

\* lines 117-118
AntsThreads ==
    /\ pc = "ants"
    /\ settings' = [settings EXCEPT !.ants_nthreads =
                       IF @ = 0 THEN cpu_count ELSE @]
    /\ pc' = "subjects"
    /\ UNCHANGED <<opts, cpu, listing, fs, ncfg, plugin_settings, subject_list,
                   idx, workflow, run_call, errno, exit_status, events, runs,
                   fs_prev>>
    /\ UNCHANGED g_vars

SubjectStep(pattern, cut) ==
    /\ pc = "subjects"
    /\ IF ~opts.participant_label.given \/ opts.participant_label.val = <<>>
       THEN \E found \in glob(settings.bids_root, pattern, listing) :
               subject_list' =
                   [i \in 1..Len(found) |-> SliceFrom(op_basename(found[i]), cut)]
       ELSE subject_list' = opts.participant_label.val
    /\ pc' = "enum"
    /\ UNCHANGED <<opts, cpu, listing, fs, settings, ncfg, plugin_settings,
                   idx, workflow, run_call, errno, exit_status, events, runs,
                   fs_prev>>
    /\ UNCHANGED g_vars

DetermineSubjects_cut3 == SubjectStep(SubPattern, 3)

\* lines 121-127
DetermineSubjects == SubjectStep(SubPattern, 4)

----------------------------------------------------------------------------
(* fmap_enumerator *)

EnumeratorName == "workflow_enumerator"

\* sbref_correct: a workflow named 'sbref_correct' that belongs to no parent
\* yet; lines 157-160 give it the crash-dump directory of its subject
sbref_correct(subject_id) ==
    [name |-> "sbref_correct",
     hierarchy |-> "",
     subject |-> subject_id,
     crashdump_dir |-> [log |-> op_join(settings.output_dir, "log"),
                        subject |-> subject_id]]

\* Workflow.add_nodes of the engine refuses a node whose name is already
\* held by a node of this workflow
DuplicateName(graph, node) ==
    \E k \in 1..Len(graph) :
        /\ graph[k].name = node.name
        /\ graph[k].hierarchy \in {node.hierarchy, EnumeratorName}

add_nodes(graph, node) ==
    IF DuplicateName(graph, node)
    THEN [raised |-> TRUE, graph |-> graph]
    ELSE [raised |-> FALSE,
          graph |-> Append(graph, [node EXCEPT !.hierarchy = EnumeratorName])]

\* lines 154-163: one turn of the loop over subject_list
EnumSubject ==
    /\ pc = "enum"
    /\ idx <= Len(subject_list)
    /\ LET fmap_wf == sbref_correct(subject_list[idx])
           r == add_nodes(workflow, fmap_wf)
       IN  /\ workflow' = r.graph
           /\ events' = Append(events, "build")
           /\ IF r.raised
              THEN pc' = "crashed" /\ UNCHANGED idx
              ELSE pc' = "enum" /\ idx' = idx + 1
    /\ UNCHANGED <<opts, cpu, listing, fs, settings, ncfg, plugin_settings,
                   subject_list, run_call, errno, exit_status, runs, fs_prev>>
    /\ UNCHANGED g_vars

\* line 165: the loop is over, the workflow is returned
EnumReturn ==
    /\ pc = "enum"
    /\ idx > Len(subject_list)
    /\ pc' = "run"
    /\ UNCHANGED <<opts, cpu, listing, fs, settings, ncfg, plugin_settings,
                   subject_list, idx, workflow, run_call, errno, exit_status,
                   events, runs, fs_prev>>
    /\ UNCHANGED g_vars

----------------------------------------------------------------------------
(* create_workflow, continued *)

RunOutcomes == {"returned", "RuntimeError", "OtherError"}

\* lines 131-135: only RuntimeError is caught
RunWorkflow ==
    /\ pc = "run"
    /\ events' = Append(events, "run")
    /\ \E outcome \in RunOutcomes :
          /\ run_call' = [called |-> TRUE, args |-> plugin_settings,
                          base_dir |-> settings.work_dir,
                          outcome |-> outcome]
          /\ CASE outcome = "returned" -> pc' = "graph" /\ UNCHANGED errno
               [] outcome = "RuntimeError" -> pc' = "graph" /\ errno' = 1
               [] OTHER -> pc' = "crashed" /\ UNCHANGED errno
    /\ UNCHANGED <<opts, cpu, listing, fs, settings, ncfg, plugin_settings,
                   subject_list, idx, workflow, exit_status, runs, fs_prev>>
    /\ UNCHANGED g_vars

WriteGraph_onsuccess ==
    /\ pc = "graph"
    /\ events' = IF opts.write_graph /\ errno = 0
                 THEN Append(events, "write_graph") ELSE events
    /\ pc' = "exit"
    /\ UNCHANGED <<opts, cpu, listing, fs, settings, ncfg, plugin_settings,
                   subject_list, idx, workflow, run_call, errno, exit_status,
                   runs, fs_prev>>
    /\ UNCHANGED g_vars

\* lines 137-139
WriteGraph ==
    /\ pc = "graph"
    /\ events' = IF opts.write_graph
                 THEN Append(events, "write_graph") ELSE events
    /\ pc' = "exit"
    /\ UNCHANGED <<opts, cpu, listing, fs, settings, ncfg, plugin_settings,
                   subject_list, idx, workflow, run_call, errno, exit_status,
                   runs, fs_prev>>
    /\ UNCHANGED g_vars

SysExit_zero ==
    /\ pc = "exit"
    /\ exit_status' = 0
    /\ events' = Append(events, "exit")
    /\ pc' = "exited"
    /\ UNCHANGED <<opts, cpu, listing, fs, settings, ncfg, plugin_settings,
                   subject_list, idx, workflow, run_call, errno, runs, fs_prev>>
    /\ UNCHANGED g_vars

\* line 143
SysExit ==
    /\ pc = "exit"
    /\ exit_status' = errno
    /\ events' = Append(events, "exit")
    /\ pc' = "exited"
    /\ UNCHANGED <<opts, cpu, listing, fs, settings, ncfg, plugin_settings,
                   subject_list, idx, workflow, run_call, errno, runs, fs_prev>>
    /\ UNCHANGED g_vars

\* lines 206-207: the program is run again with the same command line
Reinvoke ==
    /\ pc \in {"exited", "crashed"}
    /\ runs < MaxRuns
    /\ runs' = runs + 1
    /\ fs_prev' = fs
    /\ pc' = "start"
    /\ settings' = NoSettings
    /\ ncfg' = None
    /\ plugin_settings' = [plugin |-> "Linear"]
    /\ subject_list' = <<>>
    /\ idx' = 1
    /\ workflow' = <<>>
    /\ run_call' = NoRunCall
    /\ errno' = 0
    /\ exit_status' = -1
    /\ events' = <<>>
    /\ UNCHANGED <<opts, cpu, listing, fs>>
    /\ UNCHANGED g_vars

CwNext ==
    \/ Setup
    \/ MakeOutputDir
    \/ MakeWorkDir
    \/ MakeDerivatives
    \/ MakeLogDir
    \/ UpdateConfig
    \/ PluginSetup
    \/ AntsThreads
    \/ DetermineSubjects
    \/ EnumSubject
    \/ EnumReturn
    \/ RunWorkflow
    \/ WriteGraph
    \/ SysExit
    \/ Reinvoke

----------------------------------------------------------------------------
(* Command lines *)

DefaultOpts ==
    [bids_dir |-> Abs(BidsRoot),
     output_dir |-> Rel(<<"out">>),
     participant_label |-> Some(<<Str_01>>),
     nthreads |-> 0,
     mem_mb |-> 0,
     write_graph |-> FALSE,
     use_plugin |-> None,
     work_dir |-> Rel(<<"work">>),
     ants_nthreads |-> 0]

ThreadValues == {-1} \cup 0..MaxThreads

ThreadOpts ==
    {[DefaultOpts EXCEPT !.nthreads = n, !.mem_mb = m, !.ants_nthreads = a,
                         !.use_plugin = u, !.write_graph = w] :
        n \in ThreadValues, m \in MemValues, a \in 0..MaxThreads,
        u \in {None} \cup {Some(f) : f \in PluginFiles}, w \in BOOLEAN}

DirOpts ==
    {[DefaultOpts EXCEPT !.output_dir = o, !.work_dir = d, !.write_graph = w] :
        o \in {Rel(<<"out">>), Abs(<<"srv", "out">>)},
        d \in {Rel(<<"work">>), Rel(<<"out", "work">>), Rel(<<"out", "log">>)},
        w \in BOOLEAN}

LabelChoices ==
    {None, Some(<<>>), Some(<<Str_01>>), Some(<<Str_02, Str_01>>),
     Some(<<Str_sub01>>)}

SubjectOpts ==
    {[DefaultOpts EXCEPT !.participant_label = l, !.write_graph = w] :
        l \in LabelChoices, w \in BOOLEAN}

Listings == {L \in SUBSET EntryNames : Cardinality(L) <= MaxEntries}

Init == CwInit(ThreadOpts, 1..MaxCpu, {{Str_sub01}}, FALSE)

InitDirs == CwInit(DirOpts, {MaxCpu}, {{Str_sub01}}, TRUE)

InitSubjects == CwInit(SubjectOpts, {MaxCpu}, Listings, FALSE)

Spec == Init /\ [][CwNext]_vars

SpecDirs == InitDirs /\ [][CwNext]_vars

SpecSubjects == InitSubjects /\ [][CwNext]_vars

----------------------------------------------------------------------------
(* init_enhance_and_skullstrip_epi_wf *)

\* lines 21-42: the Node objects, in the order they are created
NodeDecls ==
    <<[name |-> "inputnode", interface |-> "IdentityInterface",
       fields |-> {"in_file"}],
      [name |-> "outputnode", interface |-> "IdentityInterface",
       fields |-> {"mask_file", "skull_stripped_file", "bias_corrected_file",
                   "out_report"}],
      [name |-> "n4_correct", interface |-> "N4BiasFieldCorrection",
       fields |-> {}],
      [name |-> "skullstrip_first_pass", interface |-> "BET", fields |-> {}],
      [name |-> "unifize", interface |-> "Unifize", fields |-> {}],
      [name |-> "skullstrip_second_pass", interface |-> "Automask",
       fields |-> {}],
      [name |-> "combine_masks", interface |-> "BinaryMaths", fields |-> {}],
      [name |-> "apply_mask", interface |-> "ApplyMask", fields |-> {}],
      [name |-> "mask_reportlet", interface |-> "SimpleShowMaskRPT",
       fields |-> {}]>>

Edge(src, out, dst, in) == [src |-> src, out |-> out, dst |-> dst, in |-> in]

Connections_noreport ==
    <<Edge("inputnode", "in_file", "n4_correct", "input_image"),
      Edge("n4_correct", "output_image", "skullstrip_first_pass", "in_file"),
      Edge("skullstrip_first_pass", "out_file", "unifize", "in_file"),
      Edge("unifize", "out_file", "skullstrip_second_pass", "in_file"),
      Edge("skullstrip_first_pass", "mask_file", "combine_masks", "in_file"),
      Edge("skullstrip_second_pass", "out_file", "combine_masks", "operand_file"),
      Edge("unifize", "out_file", "apply_mask", "in_file"),
      Edge("combine_masks", "out_file", "apply_mask", "mask_file"),
      Edge("n4_correct", "output_image", "mask_reportlet", "background_file"),
      Edge("combine_masks", "out_file", "mask_reportlet", "mask_file"),
      Edge("combine_masks", "out_file", "outputnode", "mask_file"),
      Edge("apply_mask", "out_file", "outputnode", "skull_stripped_file"),
      Edge("n4_correct", "output_image", "outputnode", "bias_corrected_file")>>

Connections_chain ==
    <<Edge("inputnode", "in_file", "n4_correct", "input_image"),
      Edge("n4_correct", "output_image", "skullstrip_first_pass", "in_file"),
      Edge("skullstrip_first_pass", "out_file", "unifize", "in_file"),
      Edge("unifize", "out_file", "skullstrip_second_pass", "in_file"),
      Edge("skullstrip_second_pass", "out_file", "apply_mask", "mask_file"),
      Edge("apply_mask", "out_file", "outputnode", "skull_stripped_file")>>

\* lines 44-59: the tuples of the connect call, in order
Connections ==
    <<Edge("inputnode", "in_file", "n4_correct", "input_image"),
      Edge("n4_correct", "output_image", "skullstrip_first_pass", "in_file"),
      Edge("skullstrip_first_pass", "out_file", "unifize", "in_file"),
      Edge("unifize", "out_file", "skullstrip_second_pass", "in_file"),
      Edge("skullstrip_first_pass", "mask_file", "combine_masks", "in_file"),
      Edge("skullstrip_second_pass", "out_file", "combine_masks", "operand_file"),
      Edge("unifize", "out_file", "apply_mask", "in_file"),
      Edge("combine_masks", "out_file", "apply_mask", "mask_file"),
      Edge("n4_correct", "output_image", "mask_reportlet", "background_file"),
      Edge("combine_masks", "out_file", "mask_reportlet", "mask_file"),
      Edge("combine_masks", "out_file", "outputnode", "mask_file"),
      Edge("mask_reportlet", "out_report", "outputnode", "out_report"),
      Edge("apply_mask", "out_file", "outputnode", "skull_stripped_file"),
      Edge("n4_correct", "output_image", "outputnode", "bias_corrected_file")>>

\* names the caller may give the workflow; the first is the default
WfNames == {"enhance_and_skullstrip_epi_wf", "sbref_enhance_wf", "bold_enhance_wf"}

\* line 20
CreateWorkflow ==
    /\ g_pc = "create"
    /\ g_nodes' = {}
    /\ g_edges' = {}
    /\ g_i' = 1
    /\ g_pc' = "declare"
    /\ UNCHANGED <<g_name, g_declared, g_status>>
    /\ UNCHANGED cw_vars

\* lines 21-42, one Node at a time
DeclareNode ==
    /\ g_pc = "declare"
    /\ g_i <= Len(NodeDecls)
    /\ g_declared' = g_declared \cup {NodeDecls[g_i].name}
    /\ g_i' = g_i + 1
    /\ UNCHANGED <<g_pc, g_name, g_nodes, g_edges, g_status>>
    /\ UNCHANGED cw_vars

DeclareDone ==
    /\ g_pc = "declare"
    /\ g_i > Len(NodeDecls)
    /\ g_i' = 1
    /\ g_pc' = "connect"
    /\ UNCHANGED <<g_name, g_declared, g_nodes, g_edges, g_status>>
    /\ UNCHANGED cw_vars

\* lines 44-59, one tuple at a time: both nodes join the graph and the edge
\* is added; the engine refuses a second edge into an input
Connect ==
    /\ g_pc = "connect"
    /\ g_i <= Len(Connections)
    /\ LET c == Connections[g_i]
       IN  IF \/ ~({c.src, c.dst} \subseteq g_declared)
              \/ \E e \in g_edges : e.dst = c.dst /\ e.in = c.in
           THEN /\ g_pc' = "failed"
                /\ UNCHANGED <<g_i, g_nodes, g_edges>>
           ELSE /\ g_nodes' = g_nodes \cup {c.src, c.dst}
                /\ g_edges' = g_edges \cup {c}
                /\ g_i' = g_i + 1
                /\ UNCHANGED g_pc
    /\ UNCHANGED <<g_name, g_declared, g_status>>
    /\ UNCHANGED cw_vars

\* line 61
ReturnWorkflow ==
    /\ g_pc = "connect"
    /\ g_i > Len(Connections)
    /\ g_pc' = "built"
    /\ UNCHANGED <<g_i, g_name, g_declared, g_nodes, g_edges, g_status>>
    /\ UNCHANGED cw_vars

Preds(n) == {e.src : e \in {x \in g_edges : x.dst = n}}
Succs(n) == {e.dst : e \in {x \in g_edges : x.src = n}}

\* the engine runs the returned graph: a node starts once every node feeding
\* it has finished
StartRun ==
    /\ g_pc = "built"
    /\ g_status' = [n \in g_nodes |-> "pending"]
    /\ g_pc' = "running"
    /\ UNCHANGED <<g_i, g_name, g_declared, g_nodes, g_edges>>
    /\ UNCHANGED cw_vars

NodeStart ==
    /\ g_pc = "running"
    /\ \E n \in g_nodes :
          /\ g_status[n] = "pending"
          /\ \A m \in Preds(n) : g_status[m] = "done"
          /\ g_status' = [g_status EXCEPT ![n] = "running"]
    /\ UNCHANGED <<g_pc, g_i, g_name, g_declared, g_nodes, g_edges>>
    /\ UNCHANGED cw_vars

NodeFinish ==
    /\ g_pc = "running"
    /\ \E n \in g_nodes :
          /\ g_status[n] = "running"
          /\ g_status' = [g_status EXCEPT ![n] = "done"]
    /\ UNCHANGED <<g_pc, g_i, g_name, g_declared, g_nodes, g_edges>>
    /\ UNCHANGED cw_vars

GraphNext ==
    \/ CreateWorkflow
    \/ DeclareNode
    \/ DeclareDone
    \/ Connect
    \/ ReturnWorkflow
    \/ StartRun
    \/ NodeStart
    \/ NodeFinish

InitGraph ==
    /\ opts = DefaultOpts
    /\ cpu = 1
    /\ listing = {}
    /\ fs = {}
    /\ runs = 1
    /\ fs_prev = {}
    /\ ProcessStart
    /\ g_pc = "create"
    /\ g_i = 1
    /\ g_name \in WfNames
    /\ g_declared = {}
    /\ g_nodes = {}
    /\ g_edges = {}
    /\ g_status = <<>>

SpecGraph == InitGraph /\ [][GraphNext]_vars

----------------------------------------------------------------------------
(* Properties of create_workflow *)

BeforeMkdirs == {"start", "mk_out", "mk_work", "mk_deriv", "mk_log"}

\* positions at which subject_list has been determined
SubjectsKnown ==
    pc \notin BeforeMkdirs \cup {"config", "plugin", "ants", "subjects"}

Count(q, x) == Cardinality({k \in 1..Len(q) : q[k] = x})

Positions(q, x) == {k \in 1..Len(q) : q[k] = x}

\* C1: sys.exit is given 0 when preproc_wf.run returned and 1 when it raised
\* RuntimeError; no other status is ever given, a process that has not
\* reached sys.exit has no status from create_workflow, and once run has
\* returned or raised RuntimeError the process does not die before sys.exit.
C1_ExitStatus ==
    /\ pc = "exited" =>
          /\ run_call.called
          /\ run_call.outcome = "returned" => exit_status = 0
          /\ run_call.outcome = "RuntimeError" => exit_status = 1
          /\ exit_status \in {0, 1}
    /\ pc # "exited" => exit_status = -1
    /\ (pc = "crashed" /\ run_call.called) => run_call.outcome = "OtherError"

C1_Witness ==
    /\ pc = "exited"
    /\ run_call.outcome = "RuntimeError"
    /\ exit_status = 1

\* C9: write_graph is called only when --write-graph is set, at most once,
\* after the run attempt and before sys.exit, whether run returned or raised
\* RuntimeError; sys.exit is the last call, and a RuntimeError still gives
\* exit status 1 after the graph was written.
C9_GraphAfterRun ==
    /\ ~opts.write_graph => Count(events, "write_graph") = 0
    /\ Count(events, "write_graph") <= 1
    /\ \A g \in Positions(events, "write_graph") :
          \E r \in Positions(events, "run") : r < g
    /\ \A x \in Positions(events, "exit") : x = Len(events)
    /\ pc \in {"exit", "exited"} =>
          /\ Count(events, "run") = 1
          /\ Count(events, "write_graph") = IF opts.write_graph THEN 1 ELSE 0
    /\ pc = "exited" =>
          /\ events[Len(events)] = "exit"
          /\ run_call.outcome = "RuntimeError" => exit_status = 1
    /\ (run_call.called /\ run_call.outcome # "OtherError") => pc # "crashed"

C9_Witness ==
    /\ pc = "exited"
    /\ opts.write_graph
    /\ run_call.outcome = "RuntimeError"
    /\ exit_status = 1
    /\ Count(events, "write_graph") = 1

FourDirs == {settings.output_dir, settings.work_dir, derivatives, log_dir}

\* C2: the four make_folder steps never fail, whatever directories exist at
\* the start; a first invocation adds exactly the four directories and their
\* missing parents, and a second invocation leaves the set of directories as
\* the first one left it.
C2_MkdirIdempotent ==
    /\ (pc = "crashed") => run_call.called
    /\ (pc \notin BeforeMkdirs) =>
          fs = fs_prev \cup UNION {Prefixes(d) : d \in FourDirs}
    /\ runs >= 2 => fs = fs_prev

C2_Witness ==
    /\ runs = 2
    /\ pc = "config"
    /\ FourDirs \subseteq fs
    /\ fs = fs_prev

\* C8: the four directories exist whenever the engine has been configured
\* with log_dir, a per-subject graph has been built, or run has been called
\* with base_dir = work_dir.
C8_DirsBeforeUse ==
    /\ events # <<>> => FourDirs \subseteq fs
    /\ ncfg.given =>
          /\ FourDirs \subseteq fs
          /\ ncfg.val.log_directory = log_dir
          /\ ncfg.val.crashdump_dir = log_dir
    /\ workflow # <<>> => FourDirs \subseteq fs /\ ncfg.given
    /\ run_call.called =>
          /\ FourDirs \subseteq fs
          /\ run_call.base_dir = settings.work_dir
          /\ ncfg.given

C8_Witness ==
    /\ runs = 1
    /\ fs_prev = Prefixes(Cwd)
    /\ run_call.called
    /\ workflow # <<>>

HasSubPrefix(n) == Len(n) >= 4 /\ SubSeq(n, 1, 4) = Str_sub

Minus4(n) == [k \in 1..(Len(n) - 4) |-> n[k + 4]]

\* C3: without a participant label the subject list holds one identifier per
\* entry of bids_root whose name starts with 'sub-', each the entry name
\* minus its first four characters, and nothing else.
C3_SubjectList ==
    (SubjectsKnown /\ (~opts.participant_label.given
                         \/ opts.participant_label.val = <<>>)) =>
        LET matching == {n \in listing : HasSubPrefix(n)}
        IN  /\ Len(subject_list) = Cardinality(matching)
            /\ Range(subject_list) = {Minus4(n) : n \in matching}
            /\ \A k \in 1..Len(subject_list) :
                   Str_sub \o subject_list[k] \in listing

C3_Witness ==
    /\ SubjectsKnown
    /\ ~opts.participant_label.given
    /\ Cardinality(listing) = 3
    /\ Len(subject_list) = 2

WorkflowBuilt == pc \in {"enum", "run", "graph", "exit", "exited"}

\* C4 as stated: by the time the workflow is built each of nthreads,
\* ants_nthreads and mem_mb left at 0 holds cpu_count(), and a non-zero
\* value is kept.
C4_AllFallBack ==
    WorkflowBuilt =>
        \A k \in {"nthreads", "ants_nthreads", "mem_mb"} :
            settings[k] = IF opts[k] = 0 THEN cpu_count ELSE opts[k]

\* C4 amended: ants_nthreads left at 0 holds cpu_count() in every invocation;
\* nthreads left at 0 holds cpu_count() only when no --use-plugin file is
\* given and stays 0 when one is; mem_mb is never replaced; non-zero values
\* are kept.
C4_Fallbacks ==
    WorkflowBuilt =>
        /\ settings.ants_nthreads =
              IF opts.ants_nthreads = 0 THEN cpu_count ELSE opts.ants_nthreads
        /\ settings.nthreads =
              IF opts.nthreads = 0 /\ ~opts.use_plugin.given
              THEN cpu_count ELSE opts.nthreads
        /\ settings.mem_mb = opts.mem_mb

C4_Witness ==
    /\ pc = "run"
    /\ opts.nthreads = 0
    /\ opts.ants_nthreads = 0
    /\ opts.mem_mb = 0
    /\ ~opts.use_plugin.given
    /\ settings.nthreads = cpu_count
    /\ settings.ants_nthreads = cpu_count
    /\ settings.mem_mb = 0

HasMemoryCeiling(d) ==
    "plugin_args" \in DOMAIN d /\ "memory_gb" \in DOMAIN d.plugin_args

\* C7: the dictionary passed to run is the plugin file's content when a file
\* is given (nthreads untouched); otherwise, with n the resolved thread
\* count, it is MultiProc with n_procs = n exactly when n > 1 and plain
\* Linear when n = 1, with memory_gb = mem_mb / 1024 present exactly when
\* mem_mb is non-zero and n > 1.
C7_PluginDict ==
    run_call.called =>
        IF opts.use_plugin.given
        THEN /\ run_call.args = opts.use_plugin.val
             /\ settings.nthreads = opts.nthreads
        ELSE LET n == IF opts.nthreads = 0 THEN cpu_count ELSE opts.nthreads
                 d == run_call.args
             IN  /\ d.plugin = IF n > 1 THEN "MultiProc" ELSE "Linear"
                 /\ n > 1 => /\ "plugin_args" \in DOMAIN d
                             /\ d.plugin_args.n_procs = n
                 /\ n = 1 => d = [plugin |-> "Linear"]
                 /\ HasMemoryCeiling(d) <=> (opts.mem_mb # 0 /\ n > 1)
                 /\ HasMemoryCeiling(d) =>
                       d.plugin_args.memory_gb.num * 1024 =
                           opts.mem_mb * d.plugin_args.memory_gb.den

C7_Witness ==
    /\ run_call.called
    /\ ~opts.use_plugin.given
    /\ opts.nthreads = 0
    /\ opts.mem_mb = 512
    /\ HasMemoryCeiling(run_call.args)
    /\ run_call.args.plugin_args.n_procs = cpu_count

\* C5 as stated: fmap_enumerator never fails, and the workflow it returns
\* holds one sub-workflow per identifier, in list order.
C5_OnePerSubject ==
    /\ pc = "crashed" => run_call.called
    /\ pc \in {"run", "graph", "exit", "exited"} =>
          /\ Len(workflow) = Len(subject_list)
          /\ \A k \in 1..Len(workflow) : workflow[k].subject = subject_list[k]

----------------------------------------------------------------------------
(* Properties of init_enhance_and_skullstrip_epi_wf *)

RECURSIVE ReachFrom(_, _)
ReachFrom(S, E) ==
    LET nxt == S \cup {e.dst : e \in {x \in E : x.src \in S}}
    IN  IF nxt = S THEN S ELSE ReachFrom(nxt, E)

Identity == {"inputnode", "outputnode"}

Processing == g_nodes \ Identity

ProcPreds(n) == Preds(n) \ Identity
ProcSuccs(n) == Succs(n) \ Identity

\* the processing nodes form one chain: one head, and every node takes its
\* input from at most one node and feeds at most one node
IsChain ==
    /\ Cardinality({n \in Processing : ProcPreds(n) = {}}) = 1
    /\ \A n \in Processing :
          /\ Cardinality(ProcPreds(n)) <= 1
          /\ Cardinality(ProcSuccs(n)) <= 1

DeclIndex(n) == CHOOSE k \in 1..Len(NodeDecls) : NodeDecls[k].name = n

GraphReturned == g_pc \in {"built", "running"}

\* C6 as stated: the returned graph holds exactly five processing nodes,
\* which form a single chain.
C6_FiveNodeChain ==
    GraphReturned => Cardinality(Processing) = 5 /\ IsChain

\* C6 amended: the returned graph holds exactly seven processing nodes and
\* fourteen edges; they do not form a single chain but a directed graph in
\* which every edge between processing nodes runs from a node declared
\* earlier to a node declared later.
C6_SevenNodeDag ==
    /\ g_pc # "failed"
    /\ GraphReturned =>
          /\ Cardinality(Processing) = 7
          /\ Cardinality(g_edges) = 14
          /\ ~IsChain
          /\ \A e \in g_edges :
                {e.src, e.dst} \subseteq Processing =>
                    DeclIndex(e.src) < DeclIndex(e.dst)

C6_Witness ==
    /\ g_pc = "built"
    /\ Cardinality(ProcSuccs("n4_correct")) = 2
    /\ Cardinality(ProcPreds("combine_masks")) = 2

Acyclic == \A n \in g_nodes : n \notin ReachFrom(Succs(n), g_edges)

OutputFields == NodeDecls[DeclIndex("outputnode")].fields

\* C10: the connect calls never fail and build an acyclic graph in which no
\* input has two incoming edges, each of the four outputnode fields has
\* exactly one, and every declared node lies on a path from inputnode to
\* outputnode; when the graph is run, a node that has started has all the
\* nodes feeding it finished.
C10_WellFormed ==
    /\ g_pc # "failed"
    /\ Acyclic
    /\ \A e1, e2 \in g_edges :
          (e1.dst = e2.dst /\ e1.in = e2.in) => e1 = e2
    /\ GraphReturned =>
          /\ \A f \in OutputFields :
                Cardinality({e \in g_edges :
                                e.dst = "outputnode" /\ e.in = f}) = 1
          /\ \A e \in g_edges : e.dst = "outputnode" => e.in \in OutputFields
          /\ \A n \in g_declared :
                /\ n \in ReachFrom({"inputnode"}, g_edges)
                /\ "outputnode" \in ReachFrom({n}, g_edges)
    /\ g_pc = "running" =>
          \A n \in g_nodes :
              g_status[n] # "pending" =>
                  \A m \in g_nodes :
                      n \in ReachFrom(Succs(m), g_edges) => g_status[m] = "done"

C10_Witness ==
    /\ g_pc = "running"
    /\ Cardinality(g_nodes) = 9
    /\ \A n \in g_nodes : g_status[n] = "done"

====
